---- MODULE Spec2Model ----
(***************************************************************************)
(* TaskArena job queue: the directory state machine (inbox, running, done, *)
(* failed), the claimers, the two worker loops (service.py Worker /        *)
(* process_job and .agents/tools/worker.py run_once), the HTTP ingress,    *)
(* the router and the judge's drain loop.                                  *)
(*                                                                         *)
(* service.py works on ~/.taskarena/queue, the .agents tools work on       *)
(* <repo>/.agents/queue: the two trees are disjoint, so a behaviour is     *)
(* about one of them, selected by the variable deployment.                 *)
(***************************************************************************)
EXTENDS Integers, Sequences, FiniteSets, TLC

\* ---------------------------------------------------------------- bounds
MaxJobs == 2
NumWorkers == 2

JobIds == 1..MaxJobs
Workers == 1..NumWorkers
NoJob == 0

VARIABLES
    deployment,       \* "service" (service.py) or "tools" (.agents/tools)
    rootFailedExists, \* util.py:8, whether ROOT/failed existed at import
    repoExists,       \* the target repository directory still exists
    created,          \* uuid4 values handed out so far
    rec,              \* contents of each job record file
    tmp,              \* inbox/<id>.json.tmp files
    inbox, running, done, failed, failedRoot,   \* <id>.json per directory
    enqPc, enqJob,    \* the submitter (do_POST thread / router process)
    req,              \* the request do_POST served last, with what dir was then
    resp,             \* the response to it, NoResp while it is being served
    queueLock,        \* _QUEUE_LOCK holder (service.py:69)
    claudePath,       \* _CLAUDE_PATH cache is set (service.py:71)
    wpc, wcands, wjob, wok,   \* per worker: position, candidates, held job, ok
    wlost,            \* per worker: candidates whose rename failed, while the claim call runs
    wplan, wapply,    \* per worker: plan_proc / apply_proc of the job it holds
    wart,             \* per worker: files written into the held job's bundle
    claims,           \* per job: claim() calls that returned it
    term,             \* per job: the directory finish() moved it to
    log,              \* run.jsonl, per job id the ok flags of its lines
    jpc, score, scoreFile,   \* judge: position, s, scoreboard.json
    score0,           \* the counters load_score returned at judge start
    quiescedAtList,   \* every submitted job was terminal when the last cycle began
    supportsCache,    \* _SUPPORTS_CACHE (service.py:70): "None", "yes" or "no"
    probes,           \* per worker: the --help probes it has run
    wstyle,           \* per worker: invocation style of the held job's plan and apply call
    werr,             \* per worker: the error text of the log entry it is about to write
    tempFiles,        \* the temporary prompt files that exist
    logErr            \* run.jsonl, per job id the error fields of its lines

vars == << deployment, rootFailedExists, repoExists, created, rec, tmp,
           inbox, running, done, failed, failedRoot, enqPc, enqJob, req, resp,
           queueLock, claudePath, wpc, wcands, wjob, wok, wlost, wplan, wapply, wart,
           claims, term, log,
           jpc, score, scoreFile, score0, quiescedAtList,
           supportsCache, probes, wstyle, werr, tempFiles, logErr >>

qdirs == << tmp, inbox, running, done, failed, failedRoot >>
wvars == << wpc, wcands, wjob, wok, wlost >>
hist  == << wplan, wapply, wart >>
dvars == << quiescedAtList >>
env   == << deployment, rootFailedExists >>
jvars == << jpc, score, scoreFile, score0 >>
evars == << enqPc, enqJob, req, resp >>
xvars == << supportsCache, probes, wstyle, werr, tempFiles, logErr >>

NoStyle == [plan |-> "none", apply |-> "none"]

\* ------------------------------------------------------------- helpers
Min(S) == CHOOSE x \in S : \A y \in S : x <= y

\* str.strip() on the prompt strings the model draws
Strip(s) == IF s = " " THEN "" ELSE s

Missing == [pass |-> -1, fail |-> -1]   \* scoreboard.json absent or unparsable

\* judge.py load_score
load_score(file) == IF file = Missing THEN [pass |-> 0, fail |-> 0] ELSE file

\* a snapshot written with the two counters under each other's key
save_score_swapped(s) == [pass |-> s.fail, fail |-> s.pass]

\* judge.py save_score
save_score(s) == s

\* util.py:8 FAILED, the directory finish() of the tools moves failures into
ToolsFailedIsRoot == rootFailedExists

NoResp == [status |-> -1, id |-> NoJob, repo_key |-> << >>]

NoReq == [path |-> "", body |-> [kind |-> "", dir |-> "", prompt |-> ""], isdir |-> FALSE]

NoRec == [prompt |-> "", dir |-> "none", repo_key |-> << >>]

Init ==
    /\ deployment \in {"service", "tools"}
    /\ rootFailedExists \in BOOLEAN
    /\ (deployment = "service" => rootFailedExists = FALSE)
    /\ repoExists = TRUE
    /\ created = {}
    /\ rec = [j \in JobIds |-> NoRec]
    /\ tmp = {} /\ inbox = {} /\ running = {} /\ done = {}
    /\ failed = {} /\ failedRoot = {}
    /\ enqPc = "idle" /\ enqJob = NoJob
    /\ req = NoReq
    /\ resp = NoResp
    /\ queueLock = 0
    /\ claudePath = FALSE
    /\ wpc = [w \in Workers |-> "idle"]
    /\ wcands = [w \in Workers |-> {}]
    /\ wjob = [w \in Workers |-> NoJob]
    /\ wok = [w \in Workers |-> FALSE]
    /\ wlost = [w \in Workers |-> {}]
    /\ claims = [j \in JobIds |-> 0]
    /\ term = [j \in JobIds |-> "none"]
    /\ wplan = [w \in Workers |-> "none"]
    /\ wapply = [w \in Workers |-> "none"]
    /\ wart = [w \in Workers |-> {}]
    /\ log = [j \in JobIds |-> << >>]
    /\ jpc = "load"
    /\ score = [pass |-> 0, fail |-> 0]
    /\ scoreFile \in {Missing, [pass |-> 1, fail |-> 2]}
    /\ (deployment = "service" => scoreFile = Missing)
    /\ score0 = [pass |-> 0, fail |-> 0]
    /\ quiescedAtList = FALSE
    /\ supportsCache = "None"
    /\ probes = [w \in Workers |-> 0]
    /\ wstyle = [w \in Workers |-> NoStyle]
    /\ werr = [w \in Workers |-> "none"]
    /\ tempFiles = {}
    /\ logErr = [j \in JobIds |-> << >>]

\* uuid.uuid4(): a name no record has had; names sort in the order drawn here
Fresh(id) == id \notin created /\ \A k \in JobIds \ created : id <= k

\* ------------------------------------------------------ directory moves
\* a copy in place of the rename: the source name stays
MoveOutCopy(dir, j) == dir

\* os.replace / Path.rename: the source name is gone once the call returns
MoveOut(dir, j) == dir \ {j}

\* os.replace / Path.rename: the target name exists once the call returns
MoveIn(dir, j) == dir \cup {j}

\* a rename onto a wrong target, which fails every time and is swallowed
RenameAlwaysFails(j) == TRUE

\* a rename that does not notice the source is gone
RenameNeverFails(j) == FALSE

\* the rename of a candidate raises FileNotFoundError when the source vanished
RenameFails(j) == j \notin inbox

\* ------------------------------------------------------------- ingress
Paths == {"/jobs", "/other"}
BodyKinds == {"badutf8", "badjson", "array", "object"}
DirVals == {"ABSENT", "NUM", "repo", "nowhere"}
PromptVals == {"ABSENT", " ", "NUM", "fix"}
Bodies ==
    [kind : {"object"}, dir : DirVals, prompt : PromptVals]
    \cup [kind : BodyKinds \ {"object"}, dir : {"ABSENT"}, prompt : {"ABSENT"}]

Falsy(v) == v \in {"ABSENT", ""}

\* Path.exists() and Path.is_dir() of a job's directory
IsDir(d) == d = "repo" /\ repoExists

\* service.py compute_repo_key: slug of the last path component plus a digest
compute_repo_key(d) == << d, "sha256" >>

\* do_POST up to the decision: the status sent, 0 when the handler raised
\* before sending anything, 200 when the job is to be enqueued
PostStatus(path, body) ==
    IF path # "/jobs" THEN 404
    ELSE IF body.kind = "badutf8" THEN 0          \* UnicodeDecodeError
    ELSE IF body.kind = "badjson" THEN 400        \* JSONDecodeError
    ELSE IF body.kind # "object" THEN 0           \* payload.get: AttributeError
    ELSE IF body.prompt = "NUM" THEN 0            \* (5).strip: AttributeError
    ELSE IF Falsy(body.dir)
            \/ Strip(IF Falsy(body.prompt) THEN "" ELSE body.prompt) = ""
         THEN 400
    ELSE IF body.dir = "NUM" THEN 0               \* Path(5): TypeError
    ELSE IF ~IsDir(body.dir) THEN 400
    ELSE 200

\* do_POST, a request that is answered (or dropped) without enqueueing
do_POST_reject(path, body) ==
    /\ deployment = "service"
    /\ enqPc = "idle"
    /\ PostStatus(path, body) # 200
    /\ req' = [path |-> path, body |-> body, isdir |-> IsDir(body.dir)]
    /\ resp' = [status |-> PostStatus(path, body), id |-> NoJob, repo_key |-> << >>]
    /\ UNCHANGED << env, xvars, repoExists, created, rec, qdirs, enqPc, enqJob, queueLock,
                    claudePath, wvars, claims, term, hist, log, jvars, dvars >>

\* do_POST, a valid request up to atomic_write_json's write of the .tmp file
do_POST_accept(path, body, id) ==
    /\ deployment = "service"
    /\ enqPc = "idle"
    /\ PostStatus(path, body) = 200
    /\ Fresh(id)
    /\ created' = created \cup {id}
    /\ rec' = [rec EXCEPT ![id] = [prompt |-> Strip(body.prompt), dir |-> body.dir,
                                    repo_key |-> compute_repo_key(body.dir)]]
    /\ tmp' = MoveIn(tmp, id)
    /\ enqPc' = "written"
    /\ enqJob' = id
    /\ req' = [path |-> path, body |-> body, isdir |-> IsDir(body.dir)]
    /\ resp' = NoResp
    /\ quiescedAtList' = FALSE
    /\ UNCHANGED << env, xvars, repoExists, inbox, running, done, failed, failedRoot,
                    queueLock, claudePath, wvars, claims, term, hist, log, jvars >>

\* atomic_write_json's os.replace into inbox, then the 200 response
do_POST_respond ==
    /\ deployment = "service"
    /\ enqPc = "written"
    /\ tmp' = MoveOut(tmp, enqJob)
    /\ inbox' = MoveIn(inbox, enqJob)
    /\ resp' = [status |-> 200, id |-> enqJob,
                repo_key |-> rec[enqJob].repo_key]
    /\ enqPc' = "idle"
    /\ enqJob' = NoJob
    /\ UNCHANGED << env, xvars, repoExists, created, rec, running, done, failed, failedRoot,
                    req, queueLock, claudePath, wvars, claims, term, hist, log, jvars, dvars >>

\* router.py main: one prompt read; on a tty it is enqueued as typed, from a
\* pipe empty lines are skipped
Lines == {"", " ", "fix"}

router_skip(tty, line) ==
    /\ deployment = "tools"
    /\ enqPc = "idle"
    /\ ~tty /\ Strip(line) = ""
    /\ UNCHANGED vars

\* util.py enqueue up to atomic_write_json's write of the .tmp file
router_enqueue(tty, line, id) ==
    /\ deployment = "tools"
    /\ enqPc = "idle"
    /\ (tty \/ Strip(line) # "")
    /\ Fresh(id)
    /\ created' = created \cup {id}
    /\ rec' = [rec EXCEPT ![id] = [prompt |-> Strip(line), dir |-> "repo", repo_key |-> << >>]]
    /\ tmp' = MoveIn(tmp, id)
    /\ enqPc' = "written"
    /\ enqJob' = id
    /\ quiescedAtList' = FALSE
    /\ UNCHANGED << env, xvars, repoExists, inbox, running, done, failed, failedRoot, req, resp,
                    queueLock, claudePath, wvars, claims, term, hist, log, jvars >>

\* util.py atomic_write_json's tmp.rename(path)
enqueue_rename ==
    /\ deployment = "tools"
    /\ enqPc = "written"
    /\ tmp' = MoveOut(tmp, enqJob)
    /\ inbox' = MoveIn(inbox, enqJob)
    /\ enqPc' = "idle"
    /\ enqJob' = NoJob
    /\ UNCHANGED << env, xvars, repoExists, created, rec, running, done, failed, failedRoot,
                    req, resp, queueLock, claudePath, wvars, claims, term, hist, log, jvars,
                    dvars >>

\* the target repository is removed while jobs for it are queued; only
\* do_POST and process_job ever look at the directory
RemoveRepo ==
    /\ deployment = "service"
    /\ repoExists
    /\ repoExists' = FALSE
    /\ UNCHANGED << env, xvars, created, rec, qdirs, evars, queueLock, claudePath, wvars,
                    claims, term, hist, log, jvars, dvars >>

\* ------------------------------------------------------------- claimer
\* _QUEUE_LOCK is taken by claim_job only; util.claim takes no lock
LockFree == deployment = "tools" \/ queueLock = 0
Acquire(w) == IF deployment = "service" THEN w ELSE queueLock
Release == IF deployment = "service" THEN 0 ELSE queueLock

\* the file names in the inbox directory: records and half-written .tmp files
InboxFiles == {<< j, ".json" >> : j \in inbox} \cup {<< j, ".json.tmp" >> : j \in tmp}

\* a glob by prefix, which takes <id>.json.tmp for a record too
GlobAnySuffix(files) == {f[1] : f \in files}

\* Path.glob("*.json"): the ids of the names that end in .json
GlobJson(files) == {f[1] : f \in {g \in files : g[2] = ".json"}}

\* claim / claim_job: sorted(INBOX.glob("*.json")), the snapshot of candidates
claim_list(w) ==
    /\ wpc[w] = "idle"
    /\ LockFree
    /\ inbox # {}
    /\ queueLock' = Acquire(w)
    /\ wcands' = [wcands EXCEPT ![w] = GlobJson(InboxFiles)]
    /\ wlost' = [wlost EXCEPT ![w] = {}]
    /\ wpc' = [wpc EXCEPT ![w] = "claiming"]
    /\ UNCHANGED << env, xvars, repoExists, created, rec, qdirs, evars, claudePath, wjob, wok,
                    hist, claims, term, log, jvars, dvars >>

\* claim / claim_job: the rename of the next candidate in sorted order; on
\* success the call returns the record; on failure it goes on to the next
\* candidate, and returns None after the last one
claim_try(w) ==
    /\ wpc[w] = "claiming"
    /\ LET p == Min(wcands[w]) IN
       IF RenameFails(p)
       THEN /\ wcands' = [wcands EXCEPT ![w] = @ \ {p}]
            /\ wlost' = [wlost EXCEPT ![w] = IF wcands[w] = {p} THEN {} ELSE @ \cup {p}]
            /\ wpc' = [wpc EXCEPT ![w] = IF wcands[w] = {p} THEN "idle" ELSE "claiming"]
            /\ queueLock' = IF wcands[w] = {p} THEN Release ELSE queueLock
            /\ UNCHANGED << inbox, running, wjob, claims >>
       ELSE /\ inbox' = MoveOut(inbox, p)
            /\ running' = MoveIn(running, p)
            /\ wjob' = [wjob EXCEPT ![w] = p]
            /\ wcands' = [wcands EXCEPT ![w] = {}]
            /\ wpc' = [wpc EXCEPT ![w] = "claimed"]
            /\ claims' = [claims EXCEPT ![p] = @ + 1]
            /\ queueLock' = Release
            /\ wlost' = [wlost EXCEPT ![w] = {}]
    /\ UNCHANGED << env, xvars, repoExists, created, rec, tmp, done, failed, failedRoot, evars,
                    claudePath, wok, hist, term, log, jvars, dvars >>

\* claim / claim_job on an empty inbox: the call returns None and the loop sleeps
claim_none(w) ==
    /\ wpc[w] = "idle"
    /\ LockFree
    /\ inbox = {}
    /\ UNCHANGED vars

\* -------------------------------------------------------------- finish
\* a finish that removes a failed record instead of keeping it
TargetDirDropsFailed(ok) == IF ok THEN "done" ELSE "nowhere"

\* the directory finish / finish_job renames the record into
TargetDir(ok) ==
    IF ok THEN "done"
    ELSE IF deployment = "tools" /\ ToolsFailedIsRoot THEN "failedRoot"
    ELSE "failed"

\* a finish that records the outcome and leaves the record in running
FinishWithoutMove(w, j, ok) ==
    /\ UNCHANGED << running, done, failed, failedRoot >>
    /\ term' = [term EXCEPT ![j] = IF ok THEN "done" ELSE "failed"]
    /\ wok' = [wok EXCEPT ![w] = ok]
    /\ wpc' = [wpc EXCEPT ![w] = "log"]

\* finish / finish_job: the record leaves running for done or failed; the
\* worker then holds the flag it logs
Finish(w, j, ok) ==
    /\ running' = MoveOut(running, j)
    /\ done' = IF TargetDir(ok) = "done" THEN MoveIn(done, j) ELSE done
    /\ failed' = IF TargetDir(ok) = "failed" THEN MoveIn(failed, j) ELSE failed
    /\ failedRoot' = IF TargetDir(ok) = "failedRoot" THEN MoveIn(failedRoot, j)
                     ELSE failedRoot
    /\ term' = [term EXCEPT ![j] = IF ok THEN "done" ELSE "failed"]
    /\ wok' = [wok EXCEPT ![w] = ok]
    /\ wpc' = [wpc EXCEPT ![w] = "log"]

Outcomes == {"zero", "nonzero", "raise"}   \* exit 0, exit # 0, exception (timeout, OSError)

Write(w, names) == [wart EXCEPT ![w] = @ \cup names]

\* --------------------------------------------------- service.py worker
\* process_job's validation of the record, lines 271-292
Valid(r) == IsDir(r.dir) /\ Strip(r.prompt) # ""

\* process_job lines 263-301: parse, validate, run_plan up to the plan call
process_job_begin(w, found) ==
    /\ deployment = "service"
    /\ wpc[w] = "claimed"
    /\ LET j == wjob[w] IN
       IF ~Valid(rec[j])
       THEN /\ wart' = Write(w, {"error.txt"})
            /\ Finish(w, j, FALSE)
            /\ UNCHANGED << claudePath, wplan >>
       ELSE IF ~(claudePath \/ found)
       THEN \* _resolve_claude_cli raises RuntimeError
            /\ wart' = Write(w, {"stderr.txt"})
            /\ Finish(w, j, FALSE)
            /\ UNCHANGED << claudePath, wplan >>
       ELSE /\ claudePath' = TRUE
            /\ wplan' = [wplan EXCEPT ![w] = "running"]
            /\ wpc' = [wpc EXCEPT ![w] = "plan"]
            /\ UNCHANGED << running, done, failed, failedRoot, term, wok, wart >>
    /\ UNCHANGED << env, xvars, repoExists, created, rec, tmp, inbox, evars, queueLock, wcands, wlost,
                    wjob, wapply, claims, log, jvars, dvars >>

\* whether process_job goes on to run_apply once the plan call has exited
SvcRunsApply(out) == out = "zero"

\* process_job lines 295-311: the plan call returns; its output is written;
\* a non-zero exit fails the job, an exception reaches Worker.run's handler
process_job_plan(w, out) ==
    /\ deployment = "service"
    /\ wpc[w] = "plan"
    /\ LET j == wjob[w] IN
       /\ wplan' = [wplan EXCEPT ![w] = out]
       /\ IF out = "raise"
          THEN /\ Finish(w, j, FALSE)
               /\ UNCHANGED << wart, wapply >>
          ELSE IF ~SvcRunsApply(out)
          THEN /\ wart' = Write(w, {"plan.stdout.txt", "plan.stderr.txt"})
               /\ Finish(w, j, FALSE)
               /\ UNCHANGED wapply
          ELSE /\ wart' = Write(w, {"plan.stdout.txt", "plan.stderr.txt"})
               /\ wapply' = [wapply EXCEPT ![w] = "running"]
               /\ wpc' = [wpc EXCEPT ![w] = "apply"]
               /\ UNCHANGED << running, done, failed, failedRoot, term, wok >>
    /\ UNCHANGED << env, xvars, repoExists, created, rec, tmp, inbox, evars, queueLock,
                    claudePath, wcands, wlost, wjob, claims, log, jvars, dvars >>

\* ok taken from whether the apply call returned at all
ApplyOkAnyExit(out) == out # "raise"

\* process_job line 315 / run_once line 40: ok from the apply call's exit
ApplyOk(out) == out = "zero"

\* process_job lines 311-316: the apply call returns; ok is its exit status
process_job_apply(w, out) ==
    /\ deployment = "service"
    /\ wpc[w] = "apply"
    /\ LET j == wjob[w] IN
       /\ wapply' = [wapply EXCEPT ![w] = out]
       /\ IF out = "raise"
          THEN /\ Finish(w, j, FALSE)
               /\ UNCHANGED wart
          ELSE /\ wart' = Write(w, {"apply.stdout.txt", "apply.stderr.txt"})
               /\ Finish(w, j, ApplyOk(out))
    /\ UNCHANGED << env, xvars, repoExists, created, rec, tmp, inbox, evars, queueLock,
                    claudePath, wcands, wlost, wjob, wplan, claims, log, jvars, dvars >>

\* ------------------------------------------------ tools/worker.py worker
\* run_once lines 26-39: parse, build the prompts, claude_available, and
\* claude_plan_apply up to the plan call; no validation of prompt or repo
run_once_begin(w, avail) ==
    /\ deployment = "tools"
    /\ wpc[w] = "claimed"
    /\ LET j == wjob[w] IN
       IF ~avail
       THEN /\ wart' = Write(w, {"stdout.txt", "stderr.txt"})
            /\ Finish(w, j, FALSE)
            /\ UNCHANGED wplan
       ELSE /\ wplan' = [wplan EXCEPT ![w] = "running"]
            /\ wpc' = [wpc EXCEPT ![w] = "plan"]
            /\ UNCHANGED << running, done, failed, failedRoot, term, wok, wart >>
    /\ UNCHANGED << env, xvars, repoExists, created, rec, tmp, inbox, evars, queueLock,
                    claudePath, wcands, wlost, wjob, wapply, claims, log, jvars, dvars >>

\* claude_plan_apply: the plan call returns; whatever its exit status the
\* apply call is made next; an exception (timeout) is caught by run_once
run_once_plan(w, out) ==
    /\ deployment = "tools"
    /\ wpc[w] = "plan"
    /\ LET j == wjob[w] IN
       /\ wplan' = [wplan EXCEPT ![w] = out]
       /\ IF out = "raise"
          THEN /\ wart' = Write(w, {"stdout.txt", "stderr.txt"})
               /\ Finish(w, j, FALSE)
               /\ UNCHANGED wapply
          ELSE /\ wapply' = [wapply EXCEPT ![w] = "running"]
               /\ wpc' = [wpc EXCEPT ![w] = "apply"]
               /\ UNCHANGED << running, done, failed, failedRoot, term, wok, wart >>
    /\ UNCHANGED << env, xvars, repoExists, created, rec, tmp, inbox, evars, queueLock,
                    claudePath, wcands, wlost, wjob, claims, log, jvars, dvars >>

\* claude_plan_apply returns rc of the apply call; run_once lines 40-48
run_once_apply(w, out) ==
    /\ deployment = "tools"
    /\ wpc[w] = "apply"
    /\ LET j == wjob[w] IN
       /\ wapply' = [wapply EXCEPT ![w] = out]
       /\ wart' = Write(w, {"stdout.txt", "stderr.txt"})
       /\ Finish(w, j, ApplyOk(out))
    /\ UNCHANGED << env, xvars, repoExists, created, rec, tmp, inbox, evars, queueLock,
                    claudePath, wcands, wlost, wjob, wplan, claims, log, jvars, dvars >>

\* a log write that puts the line down twice
WriteLineTwice(lines, ok) == Append(Append(lines, ok), ok)

\* handle.write(json.dumps(entry) + "\n") on run.jsonl opened for append
WriteLine(lines, ok) == Append(lines, ok)

\* log_event / logj: one line appended after the record was moved; the
\* iteration ends and its locals are gone
log_event(w) ==
    /\ wpc[w] = "log"
    /\ log' = [log EXCEPT ![wjob[w]] = WriteLine(@, wok[w])]
    /\ wpc' = [wpc EXCEPT ![w] = "idle"]
    /\ wjob' = [wjob EXCEPT ![w] = NoJob]
    /\ wok' = [wok EXCEPT ![w] = FALSE]
    /\ wplan' = [wplan EXCEPT ![w] = "none"]
    /\ wapply' = [wapply EXCEPT ![w] = "none"]
    /\ wart' = [wart EXCEPT ![w] = {}]
    /\ wlost' = [wlost EXCEPT ![w] = {}]
    /\ UNCHANGED << env, xvars, repoExists, created, rec, qdirs, evars, queueLock, claudePath,
                    wcands, claims, term, jvars, dvars >>

\* ---------------------------------------------------------------- judge
\* every submitted record has reached a terminal directory
Quiesced == enqPc = "idle" /\ tmp = {} /\ inbox = {} /\ running = {}

\* the record file is gone after unlink
Unlink(S) == [j \in JobIds |-> IF j \in S THEN NoRec ELSE rec[j]]

\* judge.py line 16: s = load_score()
judge_load ==
    /\ deployment = "tools"
    /\ jpc = "load"
    /\ score' = load_score(scoreFile)
    /\ score0' = load_score(scoreFile)
    /\ jpc' = "listDone"
    /\ UNCHANGED << env, xvars, repoExists, created, rec, qdirs, evars, queueLock, claudePath,
                    wvars, hist, claims, term, log, scoreFile, dvars >>

\* judge.py lines 18-19, the start of a drain cycle: for each record of
\* list(DONE.glob("*.json")), s["pass"] += 1 and p.unlink(missing_ok=True)
judge_drain_done ==
    /\ deployment = "tools"
    /\ jpc = "listDone"
    /\ score' = [score EXCEPT !.pass = @ + Cardinality(done)]
    /\ done' = {}
    /\ rec' = Unlink(done)
    /\ jpc' = "listFailed"
    /\ quiescedAtList' = Quiesced
    /\ UNCHANGED << env, xvars, repoExists, created, tmp, inbox, running, failed, failedRoot,
                    evars, queueLock, claudePath, wvars, hist, claims, term, log,
                    scoreFile, score0 >>

\* judge.py lines 20-21: the same over list(FAILED.glob("*.json")) with
\* s["fail"], FAILED being ROOT/queue/failed (judge.py line 6)
judge_drain_failed ==
    /\ deployment = "tools"
    /\ jpc = "listFailed"
    /\ score' = [score EXCEPT !.fail = @ + Cardinality(failed)]
    /\ failed' = {}
    /\ rec' = Unlink(failed)
    /\ jpc' = "save"
    /\ UNCHANGED << env, xvars, repoExists, created, tmp, inbox, running, done, failedRoot,
                    evars, queueLock, claudePath, wvars, hist, claims, term, log,
                    scoreFile, score0, dvars >>

\* judge.py line 22: save_score(s), then the sleep that ends the cycle
judge_save ==
    /\ deployment = "tools"
    /\ jpc = "save"
    /\ scoreFile' = save_score(score)
    /\ jpc' = "listDone"
    /\ UNCHANGED << env, xvars, repoExists, created, rec, qdirs, evars, queueLock, claudePath,
                    wvars, hist, claims, term, log, score, score0, dvars >>

\* ------------------------------------------------------- specification
Claim(w) == claim_list(w) \/ claim_try(w) \/ claim_none(w)

ServiceWorker(w) ==
    \/ \E found \in BOOLEAN : process_job_begin(w, found)
    \/ \E out \in Outcomes : process_job_plan(w, out)
    \/ \E out \in Outcomes : process_job_apply(w, out)

ToolsWorker(w) ==
    \/ \E avail \in BOOLEAN : run_once_begin(w, avail)
    \/ \E out \in Outcomes : run_once_plan(w, out)
    \/ \E out \in Outcomes : run_once_apply(w, out)

WorkerStep(w) == Claim(w) \/ ServiceWorker(w) \/ ToolsWorker(w) \/ log_event(w)

Ingress ==
    \/ \E path \in Paths, body \in Bodies : do_POST_reject(path, body)
    \/ \E path \in Paths, body \in Bodies, id \in JobIds : do_POST_accept(path, body, id)
    \/ do_POST_respond

Router ==
    \/ \E tty \in BOOLEAN, line \in Lines : router_skip(tty, line)
    \/ \E tty \in BOOLEAN, line \in Lines, id \in JobIds : router_enqueue(tty, line, id)
    \/ enqueue_rename

Judge ==
    \/ judge_load
    \/ judge_drain_done
    \/ judge_drain_failed
    \/ judge_save

Next ==
    \/ Ingress
    \/ Router
    \/ \E w \in Workers : WorkerStep(w)
    \/ Judge
    \/ RemoveRepo

Spec == Init /\ [][Next]_vars

\* every worker thread or process keeps being scheduled, and every agent call returns
FairSpec == Spec /\ \A w \in Workers : WF_vars(WorkerStep(w))

\* ------------------------------------------- exceptions while processing
\* the worker's loop has ended: the thread's run() or the worker.py process
\* was left by an exception nothing caught; the job it held stays where it was
Dies(w) ==
    /\ wpc' = [wpc EXCEPT ![w] = "dead"]
    /\ UNCHANGED << env, xvars, repoExists, created, rec, qdirs, evars, queueLock, claudePath,
                    wcands, wjob, wok, wlost, hist, claims, term, log, jvars, dvars >>

\* process_job raises before its finish_job call (job.get on a record that is
\* no object, artifact_dir.mkdir, write_artifact, the temporary file, the
\* subprocess call); Worker.run's handler calls finish_job(job_file, False)
Worker_run_except(w) ==
    /\ deployment = "service"
    /\ wpc[w] \in {"claimed", "plan", "apply"}
    /\ Finish(w, wjob[w], FALSE)
    /\ UNCHANGED << env, xvars, repoExists, created, rec, tmp, inbox, evars, queueLock, claudePath,
                    wcands, wjob, wlost, hist, claims, log, jvars, dvars >>

\* finish_job raises in process_job (mkdir or os.replace: PermissionError,
\* OSError); the handler's own finish_job call is outside any try: when it
\* raises too, run() ends with the record in running
finish_job_raises(w, again) ==
    /\ deployment = "service"
    /\ wpc[w] \in {"claimed", "plan", "apply"}
    /\ IF again
       THEN Dies(w)
       ELSE /\ Finish(w, wjob[w], FALSE)
            /\ UNCHANGED << env, xvars, repoExists, created, rec, tmp, inbox, evars, queueLock,
                            claudePath, wcands, wjob, wlost, hist, claims, log, jvars, dvars >>

\* log_event raises (run.jsonl cannot be opened or written): in process_job
\* the record has left running, so the handler's finish_job raises
\* FileNotFoundError; in the handler nothing is left to catch it
log_event_raises(w) ==
    /\ deployment = "service"
    /\ wpc[w] = "log"
    /\ Dies(w)

\* run_once raises outside its try: json.loads of the record (line 26), the
\* bundle's mkdir and write_text (lines 45-47), finish (line 48); the loop
\* of worker.py line 52 catches nothing
run_once_raises(w) ==
    /\ deployment = "tools"
    /\ wpc[w] \in {"claimed", "plan", "apply"}
    /\ Dies(w)

\* logj raises (worker.py line 49)
logj_raises(w) ==
    /\ deployment = "tools"
    /\ wpc[w] = "log"
    /\ Dies(w)

Raises(w) ==
    \/ Worker_run_except(w)
    \/ \E again \in BOOLEAN : finish_job_raises(w, again)
    \/ log_event_raises(w)
    \/ run_once_raises(w)
    \/ logj_raises(w)

\* the queue with its submitters and workers, no judge running
FaultInit == Init /\ scoreFile = Missing

FaultNext ==
    \/ Ingress
    \/ Router
    \/ \E w \in Workers : WorkerStep(w)
    \/ \E w \in Workers : Raises(w)
    \/ RemoveRepo

FaultSpec == FaultInit /\ [][FaultNext]_vars

\* ------------------------------------------------ an agent that hangs
\* subprocess.run's timeout argument in seconds, 0 where none is passed:
\* util.py line 77 passes 600, service.py line 210 passes nothing
AgentTimeout == IF deployment = "tools" THEN 600 ELSE 0

Hung == {"planHung", "applyHung"}

\* the agent process started for the plan or apply call never exits on its own
agent_hangs(w) ==
    /\ wpc[w] \in {"plan", "apply"}
    /\ wpc' = [wpc EXCEPT ![w] = IF wpc[w] = "plan" THEN "planHung" ELSE "applyHung"]
    /\ UNCHANGED << env, xvars, repoExists, created, rec, qdirs, evars, queueLock, claudePath,
                    wcands, wjob, wok, wlost, hist, claims, term, log, jvars, dvars >>

\* subprocess.run kills the agent when the timeout expires and raises
\* TimeoutExpired, which run_once catches like any exception of the call
subprocess_timeout(w) ==
    /\ wpc[w] \in Hung
    /\ AgentTimeout > 0
    /\ wplan' = [wplan EXCEPT ![w] = IF wpc[w] = "planHung" THEN "raise" ELSE @]
    /\ wapply' = [wapply EXCEPT ![w] = IF wpc[w] = "applyHung" THEN "raise" ELSE @]
    /\ wart' = Write(w, {"stdout.txt", "stderr.txt"})
    /\ Finish(w, wjob[w], FALSE)
    /\ UNCHANGED << env, xvars, repoExists, created, rec, tmp, inbox, evars, queueLock, claudePath,
                    wcands, wjob, wlost, claims, log, jvars, dvars >>

HangNext ==
    \/ Ingress
    \/ Router
    \/ \E w \in Workers : WorkerStep(w)
    \/ \E w \in Workers : agent_hangs(w)
    \/ \E w \in Workers : subprocess_timeout(w)
    \/ RemoveRepo

HangSpec == FaultInit /\ [][HangNext]_vars

\* --------------------------------- the agent calls, step by step
\* the invocation style chosen from the detection result: claude -p, or
\* claude code plan/apply --plan <temporary file>
Style(supports) == IF supports = "yes" THEN "dash" ELSE "file"

\* NamedTemporaryFile(delete=False) for a file-based call of job j
TempFile(j, call, style) == IF style = "file" THEN {<< j, call >>} ELSE {}

\* process_job fails the held job with this log error, before any agent call
FailsWith(w, name, err) ==
    /\ wart' = Write(w, {name})
    /\ werr' = [werr EXCEPT ![w] = err]
    /\ Finish(w, wjob[w], FALSE)
    /\ UNCHANGED << claudePath, supportsCache, probes, wstyle, tempFiles, wplan >>

\* process_job lines 263-295 and run_plan lines 214-226 up to the first
\* subprocess: validation, then _detect_supports_dash_p, which returns the
\* cache when it is set and otherwise resolves the executable and starts the
\* --help probe; with the cache set, _resolve_claude_cli and the plan call
detect_begin(w, found) ==
    /\ deployment = "service"
    /\ wpc[w] = "claimed"
    /\ LET j == wjob[w] IN
       IF ~Valid(rec[j]) THEN FailsWith(w, "error.txt", "validation")
       ELSE IF ~(claudePath \/ found) THEN FailsWith(w, "stderr.txt", "cli not found")
       ELSE IF supportsCache = "None"
       THEN /\ claudePath' = TRUE
            /\ probes' = [probes EXCEPT ![w] = @ + 1]
            /\ wpc' = [wpc EXCEPT ![w] = "probePlan"]
            /\ UNCHANGED << running, done, failed, failedRoot, term, wok, wart, werr,
                            supportsCache, wstyle, tempFiles, wplan >>
       ELSE /\ claudePath' = TRUE
            /\ wstyle' = [wstyle EXCEPT ![w].plan = Style(supportsCache)]
            /\ tempFiles' = tempFiles \cup TempFile(j, "plan", Style(supportsCache))
            /\ wplan' = [wplan EXCEPT ![w] = "running"]
            /\ wpc' = [wpc EXCEPT ![w] = "plan"]
            /\ UNCHANGED << running, done, failed, failedRoot, term, wok, wart, werr,
                            supportsCache, probes >>
    /\ UNCHANGED << env, repoExists, created, rec, tmp, inbox, evars, queueLock, wcands,
                    wlost, wjob, wapply, claims, log, logErr, jvars, dvars >>

\* _detect_supports_dash_p lines 198-206: the probe returns (supports "no"
\* also when it raised or timed out), the result is stored in the cache with
\* no lock held, and the call that asked for it starts
detect_probe_returns(w, supports) ==
    /\ deployment = "service"
    /\ wpc[w] \in {"probePlan", "probeApply"}
    /\ supportsCache' = supports
    /\ LET j == wjob[w] IN
       IF wpc[w] = "probePlan"
       THEN /\ wstyle' = [wstyle EXCEPT ![w].plan = Style(supports)]
            /\ tempFiles' = tempFiles \cup TempFile(j, "plan", Style(supports))
            /\ wplan' = [wplan EXCEPT ![w] = "running"]
            /\ wpc' = [wpc EXCEPT ![w] = "plan"]
            /\ UNCHANGED wapply
       ELSE /\ wstyle' = [wstyle EXCEPT ![w].apply = Style(supports)]
            /\ tempFiles' = tempFiles \cup TempFile(j, "apply", Style(supports))
            /\ wapply' = [wapply EXCEPT ![w] = "running"]
            /\ wpc' = [wpc EXCEPT ![w] = "apply"]
            /\ UNCHANGED wplan
    /\ UNCHANGED << env, repoExists, created, rec, qdirs, evars, queueLock, claudePath,
                    wcands, wjob, wok, wlost, wart, claims, term, log, jvars, dvars,
                    probes, werr, logErr >>

\* run_plan / run_apply, finally: os.unlink(temp_path)
UnlinkTemp(files, j, call) == files \ {<< j, call >>}

\* run_plan lines 219-232 and process_job lines 295-311: the plan call
\* returns, the temporary file is unlinked, the output is written; on exit
\* zero run_apply starts: detection (the cache, or a probe), then the call
run_plan_returns(w, out) ==
    /\ deployment = "service"
    /\ wpc[w] = "plan"
    /\ wplan' = [wplan EXCEPT ![w] = out]
    /\ LET j == wjob[w]
           files == UnlinkTemp(tempFiles, j, "plan") IN
       IF out # "zero"
       THEN /\ tempFiles' = files
            /\ wart' = IF out = "raise" THEN wart
                       ELSE Write(w, {"plan.stdout.txt", "plan.stderr.txt"})
            /\ werr' = [werr EXCEPT ![w] = IF out = "raise" THEN "exception" ELSE "plan failed"]
            /\ Finish(w, j, FALSE)
            /\ UNCHANGED << wapply, wstyle, probes >>
       ELSE IF supportsCache = "None"
       THEN /\ tempFiles' = files
            /\ wart' = Write(w, {"plan.stdout.txt", "plan.stderr.txt"})
            /\ probes' = [probes EXCEPT ![w] = @ + 1]
            /\ wpc' = [wpc EXCEPT ![w] = "probeApply"]
            /\ UNCHANGED << running, done, failed, failedRoot, term, wok, werr, wapply,
                            wstyle >>
       ELSE /\ tempFiles' = files \cup TempFile(j, "apply", Style(supportsCache))
            /\ wart' = Write(w, {"plan.stdout.txt", "plan.stderr.txt"})
            /\ wstyle' = [wstyle EXCEPT ![w].apply = Style(supportsCache)]
            /\ wapply' = [wapply EXCEPT ![w] = "running"]
            /\ wpc' = [wpc EXCEPT ![w] = "apply"]
            /\ UNCHANGED << running, done, failed, failedRoot, term, wok, werr, probes >>
    /\ UNCHANGED << env, repoExists, created, rec, tmp, inbox, evars, queueLock, claudePath,
                    wcands, wlost, wjob, claims, log, logErr, jvars, dvars, supportsCache >>

\* run_apply lines 241-252 and process_job lines 311-317: the apply call
\* returns, the temporary file is unlinked, ok is the exit status
run_apply_returns(w, out) ==
    /\ deployment = "service"
    /\ wpc[w] = "apply"
    /\ wapply' = [wapply EXCEPT ![w] = out]
    /\ tempFiles' = UnlinkTemp(tempFiles, wjob[w], "apply")
    /\ wart' = IF out = "raise" THEN wart
               ELSE Write(w, {"apply.stdout.txt", "apply.stderr.txt"})
    /\ werr' = [werr EXCEPT ![w] = IF out = "raise" THEN "exception" ELSE "none"]
    /\ Finish(w, wjob[w], ApplyOk(out))
    /\ UNCHANGED << env, repoExists, created, rec, tmp, inbox, evars, queueLock, claudePath,
                    wcands, wlost, wjob, wplan, claims, log, logErr, jvars, dvars,
                    supportsCache, probes, wstyle >>

\* run_once lines 26-39 and claude_plan_apply lines 72-79: claude_available,
\* then _cli_supports_dash_p, which probes on every call
cli_probe_begin(w, avail) ==
    /\ deployment = "tools"
    /\ wpc[w] = "claimed"
    /\ IF ~avail
       THEN /\ wart' = Write(w, {"stdout.txt", "stderr.txt"})
            /\ Finish(w, wjob[w], FALSE)
            /\ UNCHANGED probes
       ELSE /\ probes' = [probes EXCEPT ![w] = @ + 1]
            /\ wpc' = [wpc EXCEPT ![w] = "probePlan"]
            /\ UNCHANGED << running, done, failed, failedRoot, term, wok, wart >>
    /\ UNCHANGED << env, repoExists, created, rec, tmp, inbox, evars, queueLock, claudePath,
                    wcands, wlost, wjob, wplan, wapply, claims, log, logErr, jvars, dvars,
                    supportsCache, wstyle, werr, tempFiles >>

\* _cli_supports_dash_p returns and claude_plan_apply takes one of its two
\* branches for both calls; the file-based branch writes the plan file
cli_probe_returns(w, supports) ==
    /\ deployment = "tools"
    /\ wpc[w] = "probePlan"
    /\ wstyle' = [wstyle EXCEPT ![w] = [plan |-> Style(supports), apply |-> Style(supports)]]
    /\ tempFiles' = tempFiles \cup TempFile(wjob[w], "plan", Style(supports))
    /\ wplan' = [wplan EXCEPT ![w] = "running"]
    /\ wpc' = [wpc EXCEPT ![w] = "plan"]
    /\ UNCHANGED << env, repoExists, created, rec, qdirs, evars, queueLock, claudePath,
                    wcands, wjob, wok, wlost, wapply, wart, claims, term, log, jvars, dvars,
                    supportsCache, probes, werr, logErr >>

\* claude_plan_apply lines 80-81 / 89-92: the plan call returns and the
\* apply call starts, in the file-based branch with a second temporary
\* file; neither file is ever unlinked
plan_call_returns(w, out) ==
    /\ deployment = "tools"
    /\ wpc[w] = "plan"
    /\ wplan' = [wplan EXCEPT ![w] = out]
    /\ IF out = "raise"
       THEN /\ wart' = Write(w, {"stdout.txt", "stderr.txt"})
            /\ Finish(w, wjob[w], FALSE)
            /\ UNCHANGED << wapply, tempFiles >>
       ELSE /\ tempFiles' = tempFiles \cup TempFile(wjob[w], "apply", wstyle[w].apply)
            /\ wapply' = [wapply EXCEPT ![w] = "running"]
            /\ wpc' = [wpc EXCEPT ![w] = "apply"]
            /\ UNCHANGED << running, done, failed, failedRoot, term, wok, wart >>
    /\ UNCHANGED << env, repoExists, created, rec, tmp, inbox, evars, queueLock, claudePath,
                    wcands, wlost, wjob, claims, log, logErr, jvars, dvars,
                    supportsCache, probes, wstyle, werr >>

\* claude_plan_apply lines 82-96 and run_once lines 40-48
apply_call_returns(w, out) ==
    /\ deployment = "tools"
    /\ wpc[w] = "apply"
    /\ wapply' = [wapply EXCEPT ![w] = out]
    /\ wart' = Write(w, {"stdout.txt", "stderr.txt"})
    /\ Finish(w, wjob[w], ApplyOk(out))
    /\ UNCHANGED << env, xvars, repoExists, created, rec, tmp, inbox, evars, queueLock,
                    claudePath, wcands, wlost, wjob, wplan, claims, log, jvars, dvars >>

\* log_event / logj with the entry's error field: service.py writes one on
\* every failure but apply's non-zero exit, worker.py line 49 writes none
log_entry(w) ==
    /\ wpc[w] = "log"
    /\ log' = [log EXCEPT ![wjob[w]] = WriteLine(@, wok[w])]
    /\ logErr' = [logErr EXCEPT ![wjob[w]] = Append(@, werr[w])]
    /\ wpc' = [wpc EXCEPT ![w] = "idle"]
    /\ wjob' = [wjob EXCEPT ![w] = NoJob]
    /\ wok' = [wok EXCEPT ![w] = FALSE]
    /\ wplan' = [wplan EXCEPT ![w] = "none"]
    /\ wapply' = [wapply EXCEPT ![w] = "none"]
    /\ wart' = [wart EXCEPT ![w] = {}]
    /\ wlost' = [wlost EXCEPT ![w] = {}]
    /\ wstyle' = [wstyle EXCEPT ![w] = NoStyle]
    /\ werr' = [werr EXCEPT ![w] = "none"]
    /\ UNCHANGED << env, repoExists, created, rec, qdirs, evars, queueLock, claudePath,
                    wcands, claims, term, jvars, dvars, supportsCache, probes, tempFiles >>

ServiceCalls(w) ==
    \/ \E found \in BOOLEAN : detect_begin(w, found)
    \/ \E supports \in {"yes", "no"} : detect_probe_returns(w, supports)
    \/ \E out \in Outcomes : run_plan_returns(w, out)
    \/ \E out \in Outcomes : run_apply_returns(w, out)

ToolsCalls(w) ==
    \/ \E avail \in BOOLEAN : cli_probe_begin(w, avail)
    \/ \E supports \in {"yes", "no"} : cli_probe_returns(w, supports)
    \/ \E out \in Outcomes : plan_call_returns(w, out)
    \/ \E out \in Outcomes : apply_call_returns(w, out)

CallsNext ==
    \/ \E path \in Paths, body \in Bodies, id \in JobIds : do_POST_accept(path, body, id)
    \/ do_POST_respond
    \/ Router
    \/ \E w \in Workers : Claim(w)
    \/ \E w \in Workers : ServiceCalls(w)
    \/ \E w \in Workers : ToolsCalls(w)
    \/ \E w \in Workers : log_entry(w)
    \/ RemoveRepo

CallsSpec == FaultInit /\ [][CallsNext]_vars

\* ------------------------------------------------ a judge that crashes
\* what is left of scoreboard.json when the process dies in save_score:
\* write_text truncates the file, then writes; before that call the old
\* snapshot is intact
SnapshotAfterCrash(torn) == IF jpc = "save" /\ torn THEN Missing ELSE scoreFile

\* judge.py dies within a drain cycle and is started again: line 16 reads s
\* back from what scoreboard.json holds, and the loop starts over
judge_crash(torn) ==
    /\ deployment = "tools"
    /\ jpc \in {"listDone", "listFailed", "save"}
    /\ scoreFile' = SnapshotAfterCrash(torn)
    /\ score' = load_score(SnapshotAfterCrash(torn))
    /\ jpc' = "listDone"
    /\ UNCHANGED << env, xvars, repoExists, created, rec, qdirs, evars, queueLock,
                    claudePath, wvars, hist, claims, term, log, score0, dvars >>

CrashInit == Init /\ deployment = "tools"

CrashNext ==
    \/ Router
    \/ \E w \in Workers : Claim(w) \/ ToolsWorker(w) \/ log_event(w)
    \/ Judge
    \/ \E torn \in BOOLEAN : judge_crash(torn)

CrashSpec == CrashInit /\ [][CrashNext]_vars

\* ================================================================ claims
\* the state directories that hold a record named j
InDirs(j) ==
    {d \in {"inbox", "running", "done", "failed"} :
        \/ d = "inbox" /\ j \in inbox
        \/ d = "running" /\ j \in running
        \/ d = "done" /\ j \in done
        \/ d = "failed" /\ j \in failed
        \/ d = "failed" /\ j \in failedRoot}

Copies(j) ==
    Cardinality({d \in 1..5 : j \in << inbox, running, done, failed, failedRoot >>[d]})

Holders(j) == {w \in Workers : wjob[w] = j}

\* C1. Single ownership: of all claim calls, with or without the queue lock
\* and however their listing and rename steps interleave, at most one
\* returns a given job, exactly one once the job has left inbox, and a
\* claimer whose rename of the job failed does not return it.
C1_SingleOwnership ==
    \A j \in JobIds :
        /\ claims[j] <= 1
        /\ Cardinality(Holders(j)) <= 1
        /\ (j \in created /\ j \notin tmp /\ j \notin inbox => claims[j] = 1)
        /\ \A w \in Workers : j \in wlost[w] => wjob[w] # j /\ claims[j] = 1

\* a claimer lost the race for one record, which the other claimer returned,
\* and goes on to the next candidate of its listing
C1_Witness ==
    \E w \in Workers :
        /\ wpc[w] = "claiming"
        /\ wlost[w] # {} /\ wcands[w] # {}
        /\ \E v \in Workers \ {w} : wjob[v] \in wlost[w] /\ claims[wjob[v]] = 1

\* C2. State exclusivity: in every reachable state a job id has a record in
\* at most one of the state directories.
C2_StateExclusivity == \A j \in JobIds : Copies(j) <= 1

\* records sit in three different directories at once, each in one only
C2_Witness ==
    \E j, k \in JobIds :
        /\ j # k
        /\ j \in running /\ term[k] # "none" /\ Copies(k) = 1

\* C3. The only changes of a record's directory are inbox->running by a
\* claim, running->done and running->failed by finish, and deletion from
\* done or failed by the drain loop; a record enters inbox only from its
\* temporary file, once.
C3_Step(j) ==
    \/ InDirs(j)' = InDirs(j)
    \/ /\ InDirs(j) = {} /\ InDirs(j)' = {"inbox"}
       /\ j \in tmp /\ j \notin tmp' /\ claims[j] = 0 /\ term[j] = "none"
    \/ /\ InDirs(j) = {"inbox"} /\ InDirs(j)' = {"running"}
       /\ claims'[j] = claims[j] + 1
    \/ /\ InDirs(j) = {"running"} /\ InDirs(j)' = {"done"}
       /\ term[j] = "none" /\ term'[j] = "done"
    \/ /\ InDirs(j) = {"running"} /\ InDirs(j)' = {"failed"}
       /\ term[j] = "none" /\ term'[j] = "failed"
    \/ /\ InDirs(j) = {"done"} /\ InDirs(j)' = {}
       /\ jpc = "listDone" /\ score'.pass > score.pass
    \/ /\ InDirs(j) = {"failed"} /\ InDirs(j)' = {}
       /\ jpc = "listFailed" /\ score'.fail > score.fail

C3_LegalTransitions == [][\A j \in JobIds : C3_Step(j)]_vars

\* one record went inbox, running, done, deleted, another ended in failed
C3_Witness ==
    \E j, k \in JobIds :
        /\ term[j] = "done" /\ InDirs(j) = {}
        /\ term[k] = "failed"

PlanApplyFiles ==
    {"plan.stdout.txt", "plan.stderr.txt", "apply.stdout.txt", "apply.stderr.txt"}
ApplyFiles == {"apply.stdout.txt", "apply.stderr.txt"}

\* C5. Plan-before-apply short-circuit: the apply call is started only after
\* the plan call has returned, and a plan call that exits non-zero leaves
\* the job with no apply call, no apply artifact, and in failed.
C5_PlanShortCircuit ==
    \A w \in Workers :
        /\ (wapply[w] # "none" => wplan[w] \in {"zero", "nonzero"})
        /\ (wplan[w] = "nonzero" =>
                /\ wapply[w] = "none"
                /\ wart[w] \cap ApplyFiles = {}
                /\ wpc[w] = "log" /\ term[wjob[w]] = "failed")

\* what C5 says, for the workers of service.py alone
C5_ServiceShortCircuit == deployment = "service" => C5_PlanShortCircuit

\* C6. Validation short-circuit: the processing of a claimed job whose
\* prompt is empty after trimming, or whose repository is no directory,
\* makes no agent call, writes no plan or apply output, writes an error
\* artifact and moves the job to failed.
C6_Step(w) ==
    (wpc[w] = "claimed" /\ wpc'[w] # "claimed" /\ ~Valid(rec[wjob[w]])) =>
        /\ wplan'[w] = "none" /\ wapply'[w] = "none"
        /\ wart'[w] \cap PlanApplyFiles = {}
        /\ "error.txt" \in wart'[w]
        /\ wpc'[w] = "log"
        /\ InDirs(wjob[w])' = {"failed"}

C6_ValidationShortCircuit == [][\A w \in Workers : C6_Step(w)]_vars

\* what C6 says, for the workers of service.py alone
C6_ServiceValidation ==
    [][deployment = "service" => \A w \in Workers : C6_Step(w)]_vars

\* C7. Apply status is authoritative: a job whose agent was invoked is moved
\* to done exactly when its apply call ran and exited zero, and to failed in
\* every other outcome; until then it stays in running.
C7_ApplyAuthoritative ==
    \A w \in Workers :
        wplan[w] # "none" =>
            IF wpc[w] = "log"
            THEN /\ (wapply[w] = "zero" => term[wjob[w]] = "done" /\ wok[w])
                 /\ (wapply[w] # "zero" => term[wjob[w]] = "failed" /\ ~wok[w])
            ELSE term[wjob[w]] = "none" /\ InDirs(wjob[w]) = {"running"}

\* one job finished as done on apply's exit zero while another, whose plan
\* call succeeded and whose apply call did not exit zero, finished as failed
C7_Witness ==
    \E w, v \in Workers :
        /\ wpc[w] = "log" /\ wapply[w] = "zero" /\ term[wjob[w]] = "done"
        /\ wpc[v] = "log" /\ wplan[v] = "zero" /\ wapply[v] \in {"nonzero", "raise"}
        /\ term[wjob[v]] = "failed"

Finished(t) == {j \in JobIds : term[j] = t}

\* C8. Counting completeness: once every submitted job is in a terminal
\* directory and one further whole drain cycle has run, pass grew by the
\* number of jobs finished as done, fail by the number finished as failed,
\* the snapshot on disk says the same, and no finished record is left.
C8_CountingComplete ==
    (jpc = "listDone" /\ quiescedAtList /\ Quiesced) =>
        /\ score.pass = score0.pass + Cardinality(Finished("done"))
        /\ score.fail = score0.fail + Cardinality(Finished("failed"))
        /\ load_score(scoreFile) = score
        /\ done = {} /\ failed = {} /\ failedRoot = {}

\* what C8 says, when util.py's FAILED is the directory judge.py drains
C8_CountingWhenSameDir == ~rootFailedExists => C8_CountingComplete

\* a step of the judge
JudgeStep == deployment = "tools" /\ jpc' # jpc

\* the drain cycle under way has counted no record: s is still what the
\* snapshot held when the cycle began
NothingCounted == score = load_score(scoreFile)

\* the listing the judge's step is about to make finds no record
ListsNothing ==
    /\ jpc = "listDone" => done = {}
    /\ jpc = "listFailed" => failed = {}

\* C9. Drain idempotence: a drain cycle begins with the counters in memory
\* equal to those of the snapshot, and every step of a cycle that has found
\* no record in done or failed leaves both as they were, so that any number
\* of such cycles in a row changes neither.
C9_DrainIdempotent ==
    /\ [](jpc = "listDone" => NothingCounted)
    /\ [][(JudgeStep /\ jpc # "load" /\ NothingCounted /\ ListsNothing)
            => (score' = score /\ load_score(scoreFile') = load_score(scoreFile))]_vars

\* a cycle that found nothing has just ended, after cycles that counted records
C9_Witness ==
    /\ jpc = "listDone" /\ quiescedAtList
    /\ done = {} /\ failed = {}
    /\ scoreFile # Missing
    /\ score.pass > score0.pass /\ score.fail > score0.fail

\* the claim's reading of a request
Classify(r) ==
    IF r.path # "/jobs" THEN "notfound"
    ELSE IF r.body.kind # "object" THEN "malformed"
    ELSE IF r.body.dir \in {"ABSENT", "NUM"} \/ r.body.prompt # "fix" THEN "incomplete"
    ELSE IF ~r.isdir THEN "nodir"
    ELSE "valid"

\* C10. HTTP submission is all-or-nothing: a request to another path gets
\* 404, a request to /jobs that is malformed, incomplete or names no
\* directory gets a 4xx, and none of these writes a record; any other
\* request puts exactly one new record into inbox and is answered with that
\* record's id and repo_key.
C10_Step ==
    (resp' # NoResp /\ << req, resp >>' # << req, resp >>) =>
        IF Classify(req') = "valid"
        THEN /\ resp'.status = 200
             /\ resp'.id \in JobIds
             /\ inbox' = inbox \cup {resp'.id} /\ resp'.id \notin inbox
             /\ claims[resp'.id] = 0 /\ term[resp'.id] = "none"
             /\ rec'[resp'.id].dir = req'.body.dir
             /\ resp'.repo_key = compute_repo_key(req'.body.dir)
             /\ resp'.repo_key = rec'[resp'.id].repo_key
        ELSE /\ (Classify(req') = "notfound" => resp'.status = 404)
             /\ (Classify(req') # "notfound" => resp'.status \in 400..499)
             /\ inbox' = inbox /\ tmp' = tmp /\ created' = created

C10_AllOrNothing == [][C10_Step]_vars

\* what C10 says, leaving aside the requests on which do_POST raises
C10_WhenHandlerReturns == [][resp'.status # 0 => C10_Step]_vars

\* a claim call takes its listing in this step
Lists(w) == wpc[w] = "idle" /\ wpc'[w] = "claiming"

C12_Step(w) ==
    Raises(w) =>
        /\ wpc'[w] # "dead"
        /\ wjob[w] \notin running'
        /\ (wjob[w] \in running => wjob[w] \in failed' \cup failedRoot')

C12_WorkerSurvival == [][\A w \in Workers : C12_Step(w)]_vars

\* what C12 says, for the exceptions process_job raises before it calls finish_job
C12_HandlerCatches ==
    [][\A w \in Workers : Worker_run_except(w) =>
            /\ wpc'[w] = "log" /\ ~wok'[w]
            /\ InDirs(wjob[w])' = {"failed"}]_vars

\* C13. Bounded agent wait: an agent call whose process never exits has a
\* timeout pending, and the step in which the timeout expires fails the job:
\* the record is moved to failed and the worker goes on to log and to claim.
C13_BoundedAgentWait ==
    /\ [](\A w \in Workers : wpc[w] \in Hung => ENABLED subprocess_timeout(w))
    /\ [][\A w \in Workers :
            (wpc[w] \in Hung /\ wpc'[w] # wpc[w]) =>
                /\ wpc'[w] = "log" /\ ~wok'[w]
                /\ InDirs(wjob[w])' = {"failed"}]_vars

\* what C13 says, for the calls of util.claude_plan_apply alone
C13_ToolsBounded ==
    /\ [](\A w \in Workers :
            (deployment = "tools" /\ wpc[w] \in Hung) => ENABLED subprocess_timeout(w))
    /\ [][\A w \in Workers :
            (wpc[w] \in Hung /\ wpc'[w] # wpc[w]) =>
                /\ wpc'[w] = "log" /\ ~wok'[w]
                /\ InDirs(wjob[w])' = {"failed"}]_vars

RECURSIVE SumProbes(_)
SumProbes(S) == IF S = {} THEN 0
                ELSE LET w == Min(S) IN probes[w] + SumProbes(S \ {w})

\* the probes run so far in the process worker w belongs to: the threads of
\* service.py share one process, each worker.py is a process of its own
ProcessProbes(w) == IF deployment = "service" THEN SumProbes(Workers) ELSE probes[w]

\* C14. Probe at most once: whatever the interleaving of the workers'
\* detection calls, no process runs the --help probe more than once.
C14_ProbeAtMostOnce == \A w \in Workers : ProcessProbes(w) <= 1

\* C15. Write-once capability choice: a detection result that has been
\* stored is never replaced by another, and the plan and the apply call of
\* a job are made in the same invocation style.
C15_WriteOnce ==
    /\ [][supportsCache # "None" => supportsCache' = supportsCache]_vars
    /\ [](\A w \in Workers :
            (wstyle[w].plan # "none" /\ wstyle[w].apply # "none")
                => wstyle[w].plan = wstyle[w].apply)

\* what C15 says of one job's two calls, for claude_plan_apply alone
C15_ToolsSameStyle ==
    \A w \in Workers :
        (deployment = "tools" /\ wstyle[w].plan # "none") => wstyle[w].plan = wstyle[w].apply

\* the plan/apply protocol of the job that temporary file f was written for
\* has not returned yet
ProtocolUnderWay(f) ==
    \E w \in Workers : wjob[w] = f[1] /\ wpc[w] \in {"plan", "apply"}

\* C17. Temporary prompt files do not leak: a temporary plan or apply file
\* exists only while the plan/apply protocol of its job is under way; once
\* the protocol has returned, by exit or by exception, the file is gone.
C17_NoTempLeak == \A f \in tempFiles : ProtocolUnderWay(f)

\* what C17 says, for run_plan and run_apply of service.py alone
C17_ServiceNoLeak == deployment = "service" => C17_NoTempLeak

Total(s) == s.pass + s.fail

\* the jobs counted by the judge and not yet in the snapshot
Uncommitted == IF jpc = "load" THEN 0 ELSE Total(score) - Total(load_score(scoreFile))

\* the finished jobs the snapshot, the terminal directories and the running
\* cycle account for
Accounted ==
    (Total(load_score(scoreFile)) - Total(score0))
        + Cardinality(done \cup failed \cup failedRoot) + Uncommitted

\* C16. Bounded drain skew on crash: the snapshot, the records still in done
\* and failed and the counts of the running cycle never account for more
\* jobs than have finished; a crash of the drain loop leaves the persisted
\* counters as they were, so that what it loses is at most the records the
\* interrupted cycle had counted, and nothing of an earlier cycle.
C16_BoundedSkew ==
    /\ [](jpc # "load" => Accounted <= Cardinality({j \in JobIds : term[j] # "none"}))
    /\ [][(\E torn \in BOOLEAN : judge_crash(torn)) =>
            /\ load_score(scoreFile') = load_score(scoreFile)
            /\ Accounted' >= Accounted - Uncommitted]_vars

\* what C16 says, for the crashes that do not interrupt save_score's write
C16_SnapshotIntact ==
    /\ [](jpc # "load" => Accounted <= Cardinality({j \in JobIds : term[j] # "none"}))
    /\ [][judge_crash(FALSE) =>
            /\ load_score(scoreFile') = load_score(scoreFile)
            /\ Accounted' >= Accounted - Uncommitted]_vars

\* C18. One log line per finished job, written after the transition: no id
\* has more than one log entry, an entry is there only for a job that has
\* left running for done or failed, and every job moved to done or failed
\* eventually has its entry.
C18_OneLogLine ==
    /\ [](\A j \in JobIds :
            /\ Len(log[j]) <= 1
            /\ (Len(log[j]) = 1 =>
                    term[j] # "none" /\ j \notin tmp \cup inbox \cup running))
    /\ \A j \in JobIds : (term[j] # "none") ~> (Len(log[j]) = 1)

\* one job has its entry, the other has left running and has none yet
C18_Witness ==
    \E j, k \in JobIds :
        /\ Len(log[j]) = 1 /\ term[j] # "none"
        /\ term[k] # "none" /\ k \notin running /\ Len(log[k]) = 0

\* the step in which the worker finds that the agent executable cannot be
\* resolved: the held job is failed with the message in stderr.txt
Unresolved(w) == wpc[w] = "claimed" /\ wpc'[w] = "log" /\ "stderr.txt" \in wart'[w]

\* the step in which the worker writes its log entry
Logs(w) == wpc[w] = "log" /\ wpc'[w] = "idle"

C19_Step(w) ==
    /\ Unresolved(w) =>
        /\ InDirs(wjob[w])' = {"failed"}
        /\ wplan'[w] = "none" /\ wapply'[w] = "none" /\ wstyle'[w] = NoStyle
        /\ probes' = probes /\ tempFiles' = tempFiles
        /\ claudePath' = claudePath /\ supportsCache' = supportsCache
        /\ werr'[w] = "cli not found"
    /\ Logs(w) =>
        /\ log'[wjob[w]] = Append(log[wjob[w]], wok[w])
        /\ logErr'[wjob[w]] = Append(logErr[wjob[w]], werr[w])

\* C19. Agent-unavailable is per-job: the step that finds the executable
\* unresolvable moves the held job to failed without a probe, plan or apply
\* invocation, caches nothing, and leaves the worker about to write a log
\* entry that names the cause; the entry written carries that cause.
C19_UnavailablePerJob == [][\A w \in Workers : C19_Step(w)]_vars

\* what C19 says, for process_job of service.py alone
C19_ServicePerJob == [][deployment = "service" => \A w \in Workers : C19_Step(w)]_vars

\* one job failed for an unresolvable executable and was logged with the
\* cause; a later job, the executable resolvable again, was run and done
C19_LaterJobRuns ==
    \E j, k \in JobIds :
        /\ logErr[j] = << "cli not found" >> /\ log[j] = << FALSE >>
        /\ term[k] = "done" /\ j < k

\* the positions of a worker between its claim and its finish call
Processing == {"claimed", "plan", "apply"}

\* the workers that are processing job j
Owners(j) == {w \in Workers : wjob[w] = j /\ wpc[w] \in Processing}

\* C20. One job per worker: a worker that is claiming holds no job, a worker
\* that is processing holds one record of running, every record of running
\* is held by exactly one processing worker, and so running never has more
\* records than there are workers.
C20_OneJobPerWorker ==
    /\ Cardinality(running) <= NumWorkers
    /\ \A j \in running : Cardinality(Owners(j)) = 1
    /\ \A w \in Workers :
        /\ (wpc[w] \in Processing => wjob[w] \in running)
        /\ (wpc[w] \in {"idle", "claiming"} => wjob[w] = NoJob)

\* a worker that has finished and logged one job is processing the next,
\* while the other worker is claiming
C20_Witness ==
    \E w, v \in Workers :
        /\ wpc[w] \in Processing /\ wjob[w] = 2 /\ running = {2}
        /\ term[1] # "none" /\ Len(log[1]) = 1
        /\ wpc[v] = "idle" /\ claims[2] = 1


\* ------------------------------------------------ log against scoreboard
\* the lines of run.jsonl whose ok flag is b, over all job ids
OkLines(b) ==
    Cardinality({p \in JobIds \X (1..MaxJobs) :
                    p[2] <= Len(log[p[1]]) /\ log[p[1]][p[2]] = b})

\* every finished job has its line: no worker stands between finish and log
AllLogged ==
    /\ \A w \in Workers : wpc[w] # "log"
    /\ \A j \in JobIds : term[j] # "none" => Len(log[j]) >= 1

\* the flag of every line written, and of the line a worker is about to
\* write, says done exactly for a record that was moved to done
FlagAgrees ==
    /\ \A j \in JobIds : \A i \in 1..Len(log[j]) :
          /\ log[j][i] = TRUE <=> term[j] = "done"
          /\ log[j][i] = FALSE <=> term[j] = "failed"
    /\ \A w \in Workers : wpc[w] = "log" =>
          (wok[w] <=> term[wjob[w]] = "done")

\* after a whole drain cycle over a quiet queue with every job logged, the
\* counters and the snapshot grew by the numbers of ok and not-ok lines
LogMatchesScoreboard ==
    (jpc = "listDone" /\ quiescedAtList /\ Quiesced /\ AllLogged) =>
        /\ score.pass = score0.pass + OkLines(TRUE)
        /\ score.fail = score0.fail + OkLines(FALSE)
        /\ load_score(scoreFile) = score

\* C21. The ok flag of a job's log line agrees with the terminal directory
\* the job was moved to (true exactly for done, false exactly for failed),
\* and once all jobs are finished, logged and drained, the number of ok=true
\* lines is the scoreboard's pass increase and the number of ok=false lines
\* its fail increase.
C21_LogAgreesWithScoreboard == FlagAgrees /\ LogMatchesScoreboard

\* the first half of C21 alone: flag and terminal directory agree, and the
\* step that finishes a job puts its record where the flag says
C21_FlagAgreesWithDirectory ==
    /\ [](FlagAgrees)
    /\ [][\A w \in Workers : (wpc[w] # "log" /\ wpc'[w] = "log") =>
            LET j == wjob[w] IN
            /\ wok'[w] <=> (j \in done' /\ j \notin done)
            /\ ~wok'[w] <=> (j \in (failed' \cup failedRoot')
                               /\ j \notin (failed \cup failedRoot))]_vars

\* what C21 says of the counts, when util.py's FAILED is the directory
\* judge.py drains
C21_MatchesWhenSameDir == ~rootFailedExists => LogMatchesScoreboard

\* a drained quiet queue whose log holds a line of each kind
C21_BothKindsDrained ==
    /\ jpc = "listDone" /\ quiescedAtList /\ Quiesced /\ AllLogged
    /\ OkLines(TRUE) >= 1 /\ OkLines(FALSE) >= 1

====
